---- MODULE Spec2Model ----
(***************************************************************************)
(* Model of the mun HIR core: item-tree lowering (item_tree/lower.rs),     *)
(* the module scope tables (item_scope.rs) and the place-expression check  *)
(* (ty/infer/mut_bind.rs).                                                 *)
(*                                                                         *)
(* Conventions.  An Option<T> is a sequence of length <= 1 (<<>> is None,  *)
(* <<x>> is Some(x)).  An arena is a sequence; Idx raw value k names the   *)
(* element at sequence position k + 1.                                     *)
(***************************************************************************)
EXTENDS Integers, Sequences, FiniteSets, TLC

\* ------------------------------------------------------------------ bounds
\* Most module items of one file (declaration family of Spec).
MaxItems == 3
\* Most struct definitions of one file (struct family of SpecFields).
MaxStructs == 2
\* Most entries between the delimiters of one struct field list.
MaxFields == 2
\* Most add_resolution / add_definition calls on one ItemScope (SpecScope).
MaxCalls == 3
\* Most expressions allocated in one function body (SpecMut).
MaxExprs == 3
\* Largest raw id of a definition handed to PerNs::from_definition (SpecPerNs).
MaxId == 2
\* Most module items of one file (typed family of SpecTypes).
MaxTyped == 2
\* Most parameters of one function (typed family of SpecTypes).
MaxParams == 2
\* Evaluation threads that access BUILTIN_SCOPE (SpecLazy).
MaxThreads == 3
\* Most tokens of one source text before EOF (SpecParse).
MaxTokens == 4

\* ------------------------------------------------------------ Option<T>
None == <<>>

Some(x) == <<x>>

IsSome(o) == Len(o) = 1

Unwrap(o) == o[1]

\* ------------------------------------------------------------ utilities
Range(s) == {s[i] : i \in 1..Len(s)}

RECURSIVE SeqsUpTo(_, _)
\* All sequences over S of length at most n.
SeqsUpTo(S, n) ==
    IF n = 0 THEN {<<>>}
    ELSE LET shorter == SeqsUpTo(S, n - 1)
         IN  shorter \cup {Append(s, x) : s \in {t \in shorter : Len(t) = n - 1}, x \in S}

\* ------------------------------------------------------- source tokens
\* Declared names a file may use at module level.
Names == {"Foo", "Bar"}

\* What stands between the delimiters of a record field list: a field that
\* starts with an identifier, or a token that starts no field.
RecordEntries == {"field", "junk"}

\* What stands between the delimiters of a tuple field list: a token of
\* TYPE_FIRST, or a token that starts no type.
TupleEntries == {"type", "junk"}

\* ------------------------------------------------------------- parsing
\* Variant of record_field_def that completes the node in the error branch
\* too, leaving a RECORD_FIELD_DEF without a NAME child.
record_field_def_always(entry) ==
    CASE entry = "field"   -> Some([name |-> Some("a"), type_ref |-> Some("i32")])
      [] entry = "untyped" -> Some([name |-> Some("a"), type_ref |-> None])
      [] OTHER             -> Some([name |-> None, type_ref |-> None])

\* grammar/adt.rs record_field_def: a RECORD_FIELD_DEF node is completed only
\* in the branch taken at an IDENT, after name(p) made its NAME child;
\* otherwise the marker is abandoned and no node exists.  types::type_ may
\* leave the node without a type child ("untyped": `a:` followed by no type).
record_field_def(entry) ==
    CASE entry = "field"   -> Some([name |-> Some("a"), type_ref |-> Some("i32")])
      [] entry = "untyped" -> Some([name |-> Some("a"), type_ref |-> None])
      [] OTHER             -> None

RECURSIVE record_field_def_list(_)
\* grammar/adt.rs record_field_def_list: one record_field_def per iteration,
\* until the closing brace.
record_field_def_list(entries) ==
    IF entries = <<>> THEN <<>>
    ELSE record_field_def(Head(entries)) \o record_field_def_list(Tail(entries))

RECURSIVE tuple_field_def_list(_)
\* grammar/adt.rs tuple_field_def_list: a TUPLE_FIELD_DEF per type; a token
\* outside TYPE_FIRST abandons the marker and breaks out of the loop.  The
\* accessor TupleFieldDef::type_ref is an Option: "untyped" is a completed
\* node in which types::type_ left no type child.
tuple_field_def_list(entries) ==
    IF entries = <<>> THEN <<>>
    ELSE IF Head(entries) \notin {"type", "untyped"} THEN <<>>
    ELSE <<[name |-> None,
            type_ref |-> IF Head(entries) = "type" THEN Some("i32") ELSE None]>>
         \o tuple_field_def_list(Tail(entries))

\* grammar/adt.rs struct_def: name_recovery leaves the NAME child out when no
\* identifier follows; then `;`, a record field list or a tuple field list.
struct_def(ident, vis, skind, entries) ==
    [kind     |-> "StructDef",
     name     |-> ident,
     vis      |-> vis,
     params   |-> <<>>,
     type_ref |-> None,
     skind    |-> skind,
     fields   |-> CASE skind = "Record" -> record_field_def_list(entries)
                    [] skind = "Tuple"  -> tuple_field_def_list(entries)
                    [] OTHER            -> <<>>]

\* grammar/declarations.rs fn_def: FUNCTION_DEF with an optional NAME, the
\* parameters' ascribed types and an optional RET_TYPE.
fn_def(ident, vis, params, ret) ==
    [kind |-> "FunctionDef", name |-> ident, vis |-> vis, params |-> params,
     type_ref |-> ret, skind |-> "Unit", fields |-> <<>>]

\* grammar/adt.rs type_alias_def: TYPE_ALIAS_DEF, the type only after `=`.
type_alias_def(ident, vis, ty) ==
    [kind |-> "TypeAliasDef", name |-> ident, vis |-> vis, params |-> <<>>,
     type_ref |-> ty, skind |-> "Unit", fields |-> <<>>]

\* grammar/adt.rs const_def: CONST_DEF, the ascription only at `:`.
const_def(ident, vis, ty) ==
    [kind |-> "ConstDef", name |-> ident, vis |-> vis, params |-> <<>>,
     type_ref |-> ty, skind |-> "Unit", fields |-> <<>>]

\* --------------------------------------------------------- input families
OptNames == {None} \cup {Some(n) : n \in Names}

\* The declaration family: every item kind under every name, functions with
\* and without `pub`, structs as unit structs and one-field record structs.
DeclItems ==
    {fn_def(n, v, <<Some("i32")>>, None) : n \in OptNames, v \in {None, Some("pub")}}
    \cup {type_alias_def(n, None, Some("i32")) : n \in OptNames}
    \cup {const_def(n, None, Some("i32")) : n \in OptNames}
    \cup {struct_def(n, None, "Unit", <<>>) : n \in OptNames}
    \cup {struct_def(n, None, "Record", <<"field">>) : n \in OptNames}

\* The struct family: named and nameless structs of every kind, over every
\* field list of at most MaxFields entries.
StructItems ==
    {struct_def(n, None, "Unit", <<>>) : n \in {None, Some("Foo")}}
    \cup {struct_def(n, None, "Record", es) :
            n \in {None, Some("Foo")}, es \in SeqsUpTo(RecordEntries, MaxFields)}
    \cup {struct_def(n, None, "Tuple", es) :
            n \in {None, Some("Foo")}, es \in SeqsUpTo(TupleEntries, MaxFields)}

\* The typed family: named items of every kind whose type children are
\* present or absent: parameters, return type, alias and constant type,
\* record and tuple field types.
TypedItems ==
    {fn_def(Some("Foo"), None, ps, ret) :
        ps \in SeqsUpTo({None, Some("i32")}, MaxParams), ret \in {None, Some("i32")}}
    \cup {type_alias_def(Some("Foo"), None, ty) : ty \in {None, Some("i32")}}
    \cup {const_def(Some("Foo"), None, ty) : ty \in {None, Some("i32")}}
    \cup {struct_def(Some("Foo"), None, "Record", es) :
            es \in SeqsUpTo({"field", "untyped"}, MaxFields)}
    \cup {struct_def(Some("Foo"), None, "Tuple", es) :
            es \in SeqsUpTo({"type", "untyped"}, MaxFields)}

\* ------------------------------------------------------------------ state
VARIABLES
    items,        \* the file's module items read so far (ModuleItemOwner::items)
    top_level,    \* Vec<ModItem> collected by lower_module_items
    data,         \* Context.data : ItemTreeData, one arena per field
    diagnostics,  \* Context.diagnostics / ItemTree.diagnostics
    pc,           \* "lowering" while items are lowered, "built" once the tree is returned
    scope,        \* one ItemScope: its types and values tables and its defs list
    calls,        \* the calls made on `scope` so far, in call order
    collected,    \* how many top-level items the module collector has registered
    perns_call,   \* the last PerNs::from_definition call: arguments and result
    body,         \* a function Body: its exprs arena and its pats arena
    resolver,     \* the Resolver: what each path resolves to as a value
    mut_call,     \* the last check_mut_bind call: expression and result
    src_call,     \* the last StructField::source call: struct, field id and result
    cell,         \* BUILTIN_SCOPE: the Lazy's state and its value slot
    threads,      \* per thread: position in Lazy::force, table under construction, table observed
    published,    \* every value ever stored in BUILTIN_SCOPE's slot, in order
    parser,       \* the Parser: tokens consumed so far and the current token
    ctl,          \* which loop head the parser stands at: "mod", "record", "tuple", ...
    mod_start,    \* tokens consumed when the running mod_contents iteration began
    last_iter     \* the loop iteration completed last: loop, start, end, left by break

vars == <<items, top_level, data, diagnostics, pc, scope, calls, collected,
          perns_call, body, resolver, mut_call, src_call,
          cell, threads, published, parser, ctl, mod_start, last_iter>>

lowerVars == <<items, top_level, data, diagnostics, pc>>

scopeVars == <<scope, calls, collected, perns_call>>

mutVars == <<body, resolver, mut_call>>

srcVars == <<src_call>>

\* extVars: what the lowering, scope and place-expression steps never touch.

lazyVars == <<cell, threads, published>>

parseVars == <<parser, ctl, mod_start, last_iter>>

extVars == <<srcVars, lazyVars, parseVars>>

\* ------------------------------------------------------------ lowering
\* ItemTreeData::default(): every arena empty.
EmptyData ==
    [functions |-> <<>>, structs |-> <<>>, type_aliases |-> <<>>,
     constants |-> <<>>, fields |-> <<>>, visibilities |-> <<>>]

\* Arena::alloc: push, and return the index of the pushed element.
Alloc(arena, x) == [arena |-> Append(arena, x), idx |-> Len(arena)]

\* lower.rs lower_type_ref: TypeRef::from_ast of a present type.
lower_type_ref(ty) == [tag |-> "Path", path |-> ty]

\* Variant of lower_type_ref_opt that answers TypeRef::Empty for an absent type.
lower_type_ref_opt_empty(ty) ==
    IF IsSome(ty) THEN lower_type_ref(Unwrap(ty)) ELSE [tag |-> "Empty", path |-> ""]

\* lower.rs lower_type_ref_opt: the lowered type, TypeRef::Error when absent.
lower_type_ref_opt(ty) ==
    IF IsSome(ty) THEN lower_type_ref(Unwrap(ty)) ELSE [tag |-> "Error", path |-> ""]

\* RawVisibility::from_ast of the item's optional visibility marker.
RawVisibility_from_ast(vis) == IF IsSome(vis) THEN "Public" ELSE "This"

\* lower.rs lower_visibility: allocates in data.visibilities.
lower_visibility(d, item) ==
    LET a == Alloc(d.visibilities, RawVisibility_from_ast(item.vis))
    IN  [data |-> [d EXCEPT !.visibilities = a.arena], id |-> a.idx]

\* lower.rs next_field_idx: the raw index the next allocated field gets.
next_field_idx(d) == Len(d.fields)

\* lower.rs lower_record_field: None when the field has no name.
lower_record_field(field) ==
    IF ~IsSome(field.name) THEN None
    ELSE Some([name |-> Unwrap(field.name), type_ref |-> lower_type_ref_opt(field.type_ref)])

RECURSIVE RecordFieldsLoop(_, _)
\* lower.rs lower_record_fields, the for loop: allocate each lowered field.
RecordFieldsLoop(arena, fs) ==
    IF fs = <<>> THEN arena
    ELSE RecordFieldsLoop(arena \o lower_record_field(Head(fs)), Tail(fs))

\* lower.rs lower_record_fields: arena length before and after the loop.
lower_record_fields(d, fs) ==
    LET start == next_field_idx(d)
        d1    == [d EXCEPT !.fields = RecordFieldsLoop(d.fields, fs)]
        end   == next_field_idx(d1)
    IN  [data |-> d1, range |-> [start |-> start, end |-> end]]

\* Name::new_tuple_field: the synthesized positional name.
new_tuple_field(i) == <<"tuple_field", i>>

\* lower.rs lower_tuple_field: positional name, type or TypeRef::Error.
lower_tuple_field(idx, field) ==
    [name |-> new_tuple_field(idx), type_ref |-> lower_type_ref_opt(field.type_ref)]

RECURSIVE TupleFieldsLoop(_, _, _)
\* lower.rs lower_tuple_fields, the enumerate loop: i counts from 0.
TupleFieldsLoop(arena, fs, i) ==
    IF fs = <<>> THEN arena
    ELSE TupleFieldsLoop(Append(arena, lower_tuple_field(i, Head(fs))), Tail(fs), i + 1)

\* Variant of lower_tuple_fields whose position counter continues from the
\* arena length instead of restarting at 0.
lower_tuple_fields_arena_pos(d, fs) ==
    LET start == next_field_idx(d)
        d1    == [d EXCEPT !.fields = TupleFieldsLoop(d.fields, fs, start)]
        end   == next_field_idx(d1)
    IN  [data |-> d1, range |-> [start |-> start, end |-> end]]

\* lower.rs lower_tuple_fields.
lower_tuple_fields(d, fs) ==
    LET start == next_field_idx(d)
        d1    == [d EXCEPT !.fields = TupleFieldsLoop(d.fields, fs, 0)]
        end   == next_field_idx(d1)
    IN  [data |-> d1, range |-> [start |-> start, end |-> end]]

\* lower.rs lower_fields: Fields::Record(range), Fields::Tuple(range) or Unit.
lower_fields(d, strukt) ==
    CASE strukt.skind = "Record" ->
           LET r == lower_record_fields(d, strukt.fields)
           IN  [data |-> r.data, fields |-> [tag |-> "Record", range |-> r.range]]
      [] strukt.skind = "Tuple" ->
           LET r == lower_tuple_fields(d, strukt.fields)
           IN  [data |-> r.data, fields |-> [tag |-> "Tuple", range |-> r.range]]
      [] OTHER ->
           [data |-> d, fields |-> [tag |-> "Unit", range |-> [start |-> 0, end |-> 0]]]

RECURSIVE LowerParams(_)
\* lower.rs lower_function, the loop over param_list.params().
LowerParams(ps) ==
    IF ps = <<>> THEN <<>>
    ELSE <<lower_type_ref_opt(Head(ps))>> \o LowerParams(Tail(ps))

\* Variant of lower_function that lowers the visibility before it looks at
\* the name.
lower_function_vis_first(d, func, ast_id) ==
    LET v == lower_visibility(d, func)
    IN  IF ~IsSome(func.name) THEN [data |-> v.data, res |-> None]
        ELSE LET ret == IF IsSome(func.type_ref) THEN lower_type_ref(Unwrap(func.type_ref))
                        ELSE [tag |-> "Empty", path |-> ""]
                 a   == Alloc(v.data.functions,
                              [name |-> Unwrap(func.name), visibility |-> v.id,
                               params |-> LowerParams(func.params), ret_type |-> ret,
                               ast_id |-> ast_id])
             IN  [data |-> [v.data EXCEPT !.functions = a.arena],
                  res  |-> Some([kind |-> "Function", index |-> a.idx])]

\* lower.rs lower_function: returns None before anything is allocated when
\* the name is missing.
lower_function(d, func, ast_id) ==
    IF ~IsSome(func.name) THEN [data |-> d, res |-> None]
    ELSE LET v   == lower_visibility(d, func)
             ret == IF IsSome(func.type_ref) THEN lower_type_ref(Unwrap(func.type_ref))
                    ELSE [tag |-> "Empty", path |-> ""]
             a   == Alloc(v.data.functions,
                          [name |-> Unwrap(func.name), visibility |-> v.id,
                           params |-> LowerParams(func.params), ret_type |-> ret,
                           ast_id |-> ast_id])
         IN  [data |-> [v.data EXCEPT !.functions = a.arena],
              res  |-> Some([kind |-> "Function", index |-> a.idx])]

\* Variant of lower_struct that lowers the fields before it looks at the name.
lower_struct_fields_first(d, strukt, ast_id) ==
    LET f == lower_fields(d, strukt)
    IN  IF ~IsSome(strukt.name) THEN [data |-> f.data, res |-> None]
        ELSE LET v == lower_visibility(f.data, strukt)
                 a == Alloc(v.data.structs,
                            [name |-> Unwrap(strukt.name), visibility |-> v.id,
                             fields |-> f.fields, ast_id |-> ast_id, kind |-> strukt.skind])
             IN  [data |-> [v.data EXCEPT !.structs = a.arena],
                  res  |-> Some([kind |-> "Struct", index |-> a.idx])]

\* lower.rs lower_struct.
lower_struct(d, strukt, ast_id) ==
    IF ~IsSome(strukt.name) THEN [data |-> d, res |-> None]
    ELSE LET v == lower_visibility(d, strukt)
             f == lower_fields(v.data, strukt)
             a == Alloc(f.data.structs,
                        [name |-> Unwrap(strukt.name), visibility |-> v.id,
                         fields |-> f.fields, ast_id |-> ast_id, kind |-> strukt.skind])
         IN  [data |-> [f.data EXCEPT !.structs = a.arena],
              res  |-> Some([kind |-> "Struct", index |-> a.idx])]

\* lower.rs lower_type_alias: type_ref stays an Option.
lower_type_alias(d, alias, ast_id) ==
    IF ~IsSome(alias.name) THEN [data |-> d, res |-> None]
    ELSE LET v == lower_visibility(d, alias)
             t == IF IsSome(alias.type_ref) THEN Some(lower_type_ref(Unwrap(alias.type_ref)))
                  ELSE None
             a == Alloc(v.data.type_aliases,
                        [name |-> Unwrap(alias.name), visibility |-> v.id,
                         type_ref |-> t, ast_id |-> ast_id])
         IN  [data |-> [v.data EXCEPT !.type_aliases = a.arena],
              res  |-> Some([kind |-> "TypeAlias", index |-> a.idx])]

\* lower.rs lower_const_def: type_ref stays an Option.
lower_const_def(d, const, ast_id) ==
    IF ~IsSome(const.name) THEN [data |-> d, res |-> None]
    ELSE LET v == lower_visibility(d, const)
             t == IF IsSome(const.type_ref) THEN Some(lower_type_ref(Unwrap(const.type_ref)))
                  ELSE None
             a == Alloc(v.data.constants,
                        [name |-> Unwrap(const.name), visibility |-> v.id,
                         type_ref |-> t, ast_id |-> ast_id])
         IN  [data |-> [v.data EXCEPT !.constants = a.arena],
              res  |-> Some([kind |-> "Const", index |-> a.idx])]

\* Variant of lower_mod_item with no arm that keeps constants.
lower_mod_item_no_const(d, item, ast_id) ==
    CASE item.kind = "FunctionDef"  -> lower_function(d, item, ast_id)
      [] item.kind = "StructDef"    -> lower_struct(d, item, ast_id)
      [] item.kind = "TypeAliasDef" -> lower_type_alias(d, item, ast_id)
      [] item.kind = "ConstDef"     -> [data |-> d, res |-> None]

\* lower.rs lower_mod_item: dispatch on the syntax kind.  ast_id is the
\* source_ast_id_map entry of the node, its position among the file's items.
lower_mod_item(d, item, ast_id) ==
    CASE item.kind = "FunctionDef"  -> lower_function(d, item, ast_id)
      [] item.kind = "StructDef"    -> lower_struct(d, item, ast_id)
      [] item.kind = "TypeAliasDef" -> lower_type_alias(d, item, ast_id)
      [] item.kind = "ConstDef"     -> lower_const_def(d, item, ast_id)

\* lower.rs lower_module_items, the match of the duplicate pass: the declared
\* name of a top-level item, read from its arena.
ItemName(d, item) ==
    CASE item.kind = "Function"  -> d.functions[item.index + 1].name
      [] item.kind = "Struct"    -> d.structs[item.index + 1].name
      [] item.kind = "TypeAlias" -> d.type_aliases[item.index + 1].name
      [] item.kind = "Const"     -> d.constants[item.index + 1].name

\* The arena record a top-level item indexes.
ItemNode(d, item) ==
    CASE item.kind = "Function"  -> d.functions[item.index + 1]
      [] item.kind = "Struct"    -> d.structs[item.index + 1]
      [] item.kind = "TypeAlias" -> d.type_aliases[item.index + 1]
      [] item.kind = "Const"     -> d.constants[item.index + 1]

RECURSIVE DuplicateLoopLatest(_, _, _, _, _)
\* Variant of the duplicate pass that re-inserts the current item on a
\* collision, so `set` holds the latest item of each name.
DuplicateLoopLatest(d, tl, i, set, diags) ==
    IF i > Len(tl) THEN diags
    ELSE LET item == tl[i]
             name == ItemName(d, item)
             ins  == [n \in DOMAIN set \cup {name} |-> IF n = name THEN item ELSE set[n]]
         IN  IF name \in DOMAIN set
             THEN DuplicateLoopLatest(d, tl, i + 1, ins,
                      Append(diags, [name |-> name, first |-> set[name], second |-> item]))
             ELSE DuplicateLoopLatest(d, tl, i + 1, ins, diags)

RECURSIVE DuplicateLoopByKind(_, _, _, _, _)
\* Variant of the duplicate pass keyed by (kind, name): items of different
\* kinds never collide.
DuplicateLoopByKind(d, tl, i, set, diags) ==
    IF i > Len(tl) THEN diags
    ELSE LET item == tl[i]
             name == ItemName(d, item)
             key  == <<item.kind, name>>
         IN  IF key \in DOMAIN set
             THEN DuplicateLoopByKind(d, tl, i + 1, set,
                      Append(diags, [name |-> name, first |-> set[key], second |-> item]))
             ELSE DuplicateLoopByKind(d, tl, i + 1,
                      [k \in DOMAIN set \cup {key} |-> IF k = key THEN item ELSE set[k]],
                      diags)

\* Variant of check_duplicates with one table per item kind.
check_duplicates_by_kind(d, tl, diags) ==
    DuplicateLoopByKind(d, tl, 1, [n \in {} |-> 0], diags)

RECURSIVE DuplicateLoop(_, _, _, _, _)
\* lower.rs lower_module_items, the duplicate pass: `set` maps each name seen
\* to the first item that carried it; a name already in `set` pushes a
\* DuplicateDefinition with that first item and the current one.
DuplicateLoop(d, tl, i, set, diags) ==
    IF i > Len(tl) THEN diags
    ELSE LET item == tl[i]
             name == ItemName(d, item)
         IN  IF name \in DOMAIN set
             THEN DuplicateLoop(d, tl, i + 1, set,
                      Append(diags, [name |-> name, first |-> set[name], second |-> item]))
             ELSE DuplicateLoop(d, tl, i + 1,
                      [n \in DOMAIN set \cup {name} |-> IF n = name THEN item ELSE set[n]],
                      diags)

\* lower.rs lower_module_items, lines 55-74.
check_duplicates(d, tl, diags) ==
    DuplicateLoop(d, tl, 1, [n \in {} |-> 0], diags)

\* ------------------------------------------------------------ item scope
\* The visibilities a definition can be registered under.
Visibilities == {"Public", "Module0", "Module1"}

\* The kinds of ItemDefinitionId.
DefinitionKinds ==
    {"FunctionId", "StructId", "TypeAliasId", "ConstDefId", "PrimitiveType", "ModuleId"}

\* item_scope.rs ItemScope::default(): empty tables, no definitions.
EmptyScope == [types |-> [n \in {} |-> 0], values |-> [n \in {} |-> 0], defs |-> <<>>]

\* HashMap::insert: the entry of `name` is replaced or created.
Insert(map, name, entry) ==
    [n \in DOMAIN map \cup {name} |-> IF n = name THEN entry ELSE map[n]]

\* HashMap::get(..).copied().
Lookup(map, name) == IF name \in DOMAIN map THEN Some(map[name]) ELSE None

\* Variant of add_definition that skips an identity already in the list.
add_definition_dedup(sc, def) ==
    IF def \in Range(sc.defs) THEN sc ELSE [sc EXCEPT !.defs = Append(@, def)]

\* item_scope.rs ItemScope::add_definition.
add_definition(sc, def) == [sc EXCEPT !.defs = Append(@, def)]

\* Variant of add_resolution that stores both slots of `def` as they are, so
\* an empty slot removes the entry of that namespace.
add_resolution_both_slots(sc, name, def) ==
    [sc EXCEPT
        !.types  = IF IsSome(def.types) THEN Insert(@, name, Unwrap(def.types))
                   ELSE [n \in DOMAIN @ \ {name} |-> @[n]],
        !.values = IF IsSome(def.values) THEN Insert(@, name, Unwrap(def.values))
                   ELSE [n \in DOMAIN @ \ {name} |-> @[n]]]

\* item_scope.rs ItemScope::add_resolution: each populated slot of `def` is
\* inserted in the table of its namespace.
add_resolution(sc, name, def) ==
    [sc EXCEPT
        !.types  = IF IsSome(def.types) THEN Insert(@, name, Unwrap(def.types)) ELSE @,
        !.values = IF IsSome(def.values) THEN Insert(@, name, Unwrap(def.values)) ELSE @]

\* item_scope.rs ItemScope::get.
get(sc, name) == [types |-> Lookup(sc.types, name), values |-> Lookup(sc.values, name)]

\* item_scope.rs ItemScope::declarations.
declarations(sc) == sc.defs

\* PerNs::types, PerNs::values, PerNs::both as from_definition uses them.
PerNs_types(t) == [types |-> Some(t), values |-> None]

PerNs_values(v) == [types |-> None, values |-> Some(v)]

PerNs_both(t, v) == [types |-> Some(t), values |-> Some(v)]

\* Variant of from_definition that puts constants in the value namespace.
from_definition_const_value(def, vis, has_constructor) ==
    LET e == [id |-> def, vis |-> vis]
    IN  CASE def.kind = "FunctionId"    -> PerNs_values(e)
          [] def.kind = "StructId"      ->
               IF has_constructor THEN PerNs_both(e, e) ELSE PerNs_types(e)
          [] def.kind = "TypeAliasId"   -> PerNs_types(e)
          [] def.kind = "ConstDefId"    -> PerNs_values(e)
          [] def.kind = "PrimitiveType" -> PerNs_types(e)
          [] def.kind = "ModuleId"      -> PerNs_types(e)

\* item_scope.rs PerNs::from_definition.
from_definition(def, vis, has_constructor) ==
    LET e == [id |-> def, vis |-> vis]
    IN  CASE def.kind = "FunctionId"    -> PerNs_values(e)
          [] def.kind = "StructId"      ->
               IF has_constructor THEN PerNs_both(e, e) ELSE PerNs_types(e)
          [] def.kind = "TypeAliasId"   -> PerNs_types(e)
          [] def.kind = "ConstDefId"    -> PerNs_types(e)
          [] def.kind = "PrimitiveType" -> PerNs_types(e)
          [] def.kind = "ModuleId"      -> PerNs_types(e)

\* The identities and the PerNs values the scope operations are called with.
ScopeIds == <<[kind |-> "StructId", id |-> 0], [kind |-> "FunctionId", id |-> 1]>>

ScopeEntries ==
    {[id |-> ScopeIds[1], vis |-> "Public"], [id |-> ScopeIds[2], vis |-> "Module0"]}

ScopePerNs ==
    {[types |-> t, values |-> v] :
        t \in {None} \cup {Some(e) : e \in ScopeEntries},
        v \in {None} \cup {Some(e) : e \in ScopeEntries}}

\* The ItemDefinitionId the collector interns for a top-level item.
DefinitionId(item) ==
    [kind |-> CASE item.kind = "Function"  -> "FunctionId"
                [] item.kind = "Struct"    -> "StructId"
                [] item.kind = "TypeAlias" -> "TypeAliasId"
                [] item.kind = "Const"     -> "ConstDefId",
     id   |-> item.index]

\* RawVisibility::resolve in the module that declares the item.
resolve_visibility(raw) == IF raw = "Public" THEN "Public" ELSE "Module0"

\* ------------------------------------------------------ place expressions
\* The paths a body may mention.
Paths == {"x", "y"}

\* What Resolver::resolve_path_as_value_fully can answer for a path: None
\* (unresolved, or resolved only in part), a local binding, a function.
Resolutions ==
    {None, Some([tag |-> "LocalBinding", pat |-> 0]),
     Some([tag |-> "LocalBinding", pat |-> 1]), Some([tag |-> "FunctionId", pat |-> 0])}

\* The patterns of the body: `mut x` and `y`.
BodyPats ==
    <<[tag |-> "Bind", mode |-> "Mutable"], [tag |-> "Bind", mode |-> "Unannotated"]>>

\* Resolver::resolve_path_as_value_fully.
resolve_path_as_value_fully(r, path) == r[path]

\* Variant of check_mut_path that accepts a local binding of any mode.
check_mut_path_any_mode(b, r, path) ==
    LET res == resolve_path_as_value_fully(r, path)
    IN  IF IsSome(res) /\ Unwrap(res).tag = "LocalBinding"
        THEN b.pats[Unwrap(res).pat + 1].tag = "Bind"
        ELSE FALSE

\* mut_bind.rs check_mut_path.
check_mut_path(b, r, path) ==
    LET res == resolve_path_as_value_fully(r, path)
    IN  IF IsSome(res) /\ Unwrap(res).tag = "LocalBinding"
        THEN LET pat == b.pats[Unwrap(res).pat + 1]
             IN  pat.tag = "Bind" /\ pat.mode = "Mutable"
        ELSE FALSE

RECURSIVE check_mut_bind(_, _, _)
\* mut_bind.rs check_mut_bind.
check_mut_bind(b, r, expr) ==
    LET e == b.exprs[expr + 1]
    IN  CASE e.tag = "Path"  -> check_mut_path(b, r, e.path)
          [] e.tag = "Field" -> check_mut_bind(b, r, e.expr)
          [] OTHER           -> FALSE

\* ------------------------------------------------------- parser: the tokens
\* The token kinds the declaration grammar tells apart; "other" is any other.
Tokens ==
    {"struct", "type", "const", "fn", "extern", "pub", "ident", "{", "}", "(", ")",
     ",", ";", ":", "=", "->", "other"}

\* The tokens that can stand at position k: the text has at most MaxTokens
\* tokens and may end earlier.
TokensAt(k) == IF k >= MaxTokens THEN {"EOF"} ELSE Tokens \cup {"EOF"}

\* A parser step applied to every state of a set of parser states.
Then(S, F(_)) == UNION {F(q) : q \in S}

\* Variant of error_and_bump that reports the error and consumes nothing.
error_no_bump(p) == {p}

\* Parser::bump / bump_any: the current token is consumed and the next one,
\* whatever the text holds there, becomes current; nothing moves at EOF.
bump(p) ==
    IF p.cur = "EOF" THEN {p}
    ELSE {[pos |-> p.pos + 1, cur |-> c] : c \in TokensAt(p.pos + 1)}

\* Parser::eat and Parser::expect: the token is consumed if it is current
\* (expect reports an error otherwise).
eat(p, kind) == IF p.cur = kind THEN bump(p) ELSE {p}

\* A callee that consumes any number of tokens, none included.
Later(p) ==
    IF p.cur = "EOF" THEN {p}
    ELSE {p} \cup UNION {{[pos |-> k, cur |-> c] : c \in TokensAt(k)} :
                          k \in (p.pos + 1)..MaxTokens}

\* Parser::error_and_bump: the error is reported and the current token is
\* consumed; at a brace the recovery may leave the token in place.
error_and_bump(p) == IF p.cur \in {"{", "}"} THEN {p} \cup bump(p) ELSE bump(p)

\* error_block: at `{`, consumes the brace and the block that follows it.
error_block(p) == Then(bump(p), Later)

\* opt_visibility: `pub` and its optional specifier, nothing otherwise.
opt_visibility(p) == IF p.cur = "pub" THEN Then(bump(p), Later) ELSE {p}

\* name: the identifier is consumed if it is current.
parse_name(p) == eat(p, "ident")

\* name_recovery: as name(p), and an error recovery that may consume a token.
name_recovery(p) == IF p.cur = "ident" THEN bump(p) ELSE {p} \cup bump(p)

\* types::TYPE_FIRST within Tokens.
TYPE_FIRST == {"ident", "fn", "("}

\* types::type_: a type, at least one token, where one can start; an error
\* recovery that may consume a token elsewhere.
type_(p) == IF p.cur \in TYPE_FIRST THEN Then(bump(p), Later) ELSE {p} \cup bump(p)

\* declarations.rs abi.
abi(p) == bump(p)

\* declarations.rs opt_fn_ret_type.
opt_fn_ret_type(p) == IF p.cur = "->" THEN Then(bump(p), type_) ELSE {p}

\* declarations.rs fn_def on the token stream: params::param_list and
\* expressions::block consume any number of tokens.
parse_fn_def(p) ==
    LET named  == Then(bump(p), name_recovery)
        params == Then(named, LAMBDA q : IF q.cur = "(" THEN Then(bump(q), Later) ELSE {q})
        ret    == Then(params, opt_fn_ret_type)
    IN  Then(ret, LAMBDA q : IF q.cur = ";" THEN bump(q) ELSE Later(q))

\* adt.rs type_alias_def on the token stream.
parse_type_alias_def(p) ==
    LET named == Then(bump(p), parse_name)
        typed == Then(named, LAMBDA q : IF q.cur = "=" THEN Then(bump(q), type_) ELSE {q})
    IN  Then(typed, LAMBDA q : eat(q, ";"))

\* adt.rs const_def on the token stream: types::ascription is `:` and a
\* type, expressions::expr consumes any number of tokens.
parse_const_def(p) ==
    LET named == Then(bump(p), parse_name)
        typed == Then(named, LAMBDA q : IF q.cur = ":" THEN Then(bump(q), type_) ELSE {q})
        value == Then(Then(typed, LAMBDA q : eat(q, "=")), Later)
    IN  Then(value, LAMBDA q : eat(q, ";"))

\* adt.rs opt_memory_type_specifier.
opt_memory_type_specifier(p) ==
    IF p.cur = "("
    THEN LET spec == Then(bump(p), LAMBDA q : IF q.cur = "ident" THEN bump(q) ELSE {q})
         IN  Then(spec, LAMBDA q : eat(q, ")"))
    ELSE {p}

\* What a step of the grammar ends in: the parser state, and the field list
\* whose loop it has entered, if any.
Outcome(q, enter) == [p |-> q, enter |-> enter]

\* adt.rs struct_def up to the first loop head of its field list, or to its
\* end when it has none.
parse_struct_def(p) ==
    LET named == Then(Then(bump(p), opt_memory_type_specifier), name_recovery)
    IN  UNION {CASE q.cur = ";" -> {Outcome(r, "none") : r \in bump(q)}
                 [] q.cur = "{" -> {Outcome(r, "record") : r \in bump(q)}
                 [] q.cur = "(" -> {Outcome(r, "tuple") : r \in bump(q)}
                 [] OTHER       -> {Outcome(q, "none")}
               : q \in named}

\* declarations.rs declaration, the error recovery after maybe_declaration
\* has returned the marker.
declaration_recovery(p) ==
    CASE p.cur = "{"   -> error_block(p)
      [] p.cur = "}"   -> bump(p)
      [] p.cur # "EOF" -> error_and_bump(p)
      [] OTHER         -> {p}

\* declarations.rs maybe_declaration after the visibility, followed by
\* declaration's recovery when it fails.
declaration_after_visibility(p) ==
    CASE p.cur = "struct" -> parse_struct_def(p)
      [] p.cur = "type"   -> {Outcome(q, "none") : q \in parse_type_alias_def(p)}
      [] p.cur = "const"  -> {Outcome(q, "none") : q \in parse_const_def(p)}
      [] OTHER ->
           LET after_abi == IF p.cur = "extern" THEN abi(p) ELSE {p}
           IN  {Outcome(r, "none") :
                  r \in Then(after_abi, LAMBDA q :
                          IF q.cur = "fn" THEN parse_fn_def(q)
                          ELSE declaration_recovery(q))}

\* declarations.rs declaration: one iteration of the mod_contents loop, up
\* to its end or to the first loop head of a field list.
declaration(p) == UNION {declaration_after_visibility(q) : q \in opt_visibility(p)}

\* adt.rs record_field_def on the token stream.
parse_record_field_def(p) ==
    Then(opt_visibility(p), LAMBDA q :
        IF q.cur = "ident"
        THEN Then(Then(parse_name(q), LAMBDA r : eat(r, ":")), type_)
        ELSE error_and_bump(q))

\* adt.rs record_field_def_list: the body of the while loop.
record_field_iteration(p) ==
    IF p.cur = "{" THEN error_block(p)
    ELSE Then(parse_record_field_def(p), LAMBDA q :
            IF q.cur # "}" THEN eat(q, ",") ELSE {q})

\* adt.rs tuple_field_def_list: the body of the while loop; `brk` tells
\* that it left the loop by break.
tuple_field_iteration(p) ==
    IF p.cur \notin TYPE_FIRST
    THEN {[p |-> q, brk |-> TRUE] : q \in error_and_bump(p)}
    ELSE {[p |-> r, brk |-> FALSE] :
            r \in Then(type_(p), LAMBDA q : IF q.cur # ")" THEN eat(q, ",") ELSE {q})}

\* The end of a field list after its loop: the closing delimiter is expected
\* and a `;` eaten.
field_list_end(p, close) == Then(eat(p, close), LAMBDA q : eat(q, ";"))

\* ------------------------------------------------------------ built-in scope
\* PrimitiveType::ALL: the primitive type names with their types (a sample
\* of three; the type is given by its position).
PrimitiveType_ALL ==
    <<[name |-> "bool", ty |-> 0], [name |-> "f64", ty |-> 1], [name |-> "i32", ty |-> 2]>>

\* Variant of the initialiser's closure that registers a primitive as a value.
builtin_entry_values(p) ==
    PerNs_values([id |-> [kind |-> "PrimitiveType", id |-> p.ty], vis |-> "Public"])

\* item_scope.rs BUILTIN_SCOPE, the closure of the map: the entry of one
\* primitive, PerNs::types((ty.into(), Visibility::Public)).
builtin_entry(p) ==
    PerNs_types([id |-> [kind |-> "PrimitiveType", id |-> p.ty], vis |-> "Public"])

Threads == 1..MaxThreads

IdleThread == [pc |-> "idle", local |-> [n \in {} |-> 0], seen |-> None]

\* The initialiser's progress: how many elements of ALL the iterator has
\* collected into the thread's table.
Collected(t) == Cardinality(DOMAIN threads[t].local)


\* ---------------------------------------------------------------- actions
\* Context::new, ItemScope::default, an empty body under a resolver that
\* resolves nothing.
Init ==
    /\ items = <<>>
    /\ top_level = <<>>
    /\ data = EmptyData
    /\ diagnostics = <<>>
    /\ pc = "lowering"
    /\ scope = EmptyScope
    /\ calls = <<>>
    /\ collected = 0
    /\ perns_call = None
    /\ body = [exprs |-> <<>>, pats |-> <<>>]
    /\ resolver = [p \in Paths |-> None]
    /\ mut_call = None
    /\ src_call = None
    /\ cell = [state |-> "Incomplete", value |-> None]
    /\ threads = [t \in Threads |-> IdleThread]
    /\ published = <<>>
    /\ parser = [pos |-> 0, cur |-> "EOF"]
    /\ ctl = "mod"
    /\ mod_start = 0
    /\ last_iter = None

\* One iteration of the flat_map over item_owner.items().
LowerItem(item) ==
    LET r == lower_mod_item(data, item, Len(items))
    IN  /\ items' = Append(items, item)
        /\ data' = r.data
        /\ top_level' = top_level \o r.res
        /\ UNCHANGED <<diagnostics, pc, scopeVars, mutVars, extVars>>

\* The next module item of a file of the declaration family.
LowerModItem ==
    /\ pc = "lowering"
    /\ Len(items) < MaxItems
    /\ \E item \in DeclItems : LowerItem(item)

\* The next module item of a file of the struct family.
LowerStructItem ==
    /\ pc = "lowering"
    /\ Len(items) < MaxStructs
    /\ \E item \in StructItems : LowerItem(item)

\* The items are exhausted: the duplicate pass runs and the ItemTree is
\* returned.
FinishModuleItems ==
    /\ pc = "lowering"
    /\ diagnostics' = check_duplicates(data, top_level, diagnostics)
    /\ pc' = "built"
    /\ UNCHANGED <<items, top_level, data, scopeVars, mutVars, extVars>>

\* The module collector registers the next top-level item of the built tree
\* in the module's scope, in declaration order.
CollectItem ==
    /\ pc = "built"
    /\ collected < Len(top_level)
    /\ \E has_constructor \in BOOLEAN :
        LET item == top_level[collected + 1]
            name == ItemName(data, item)
            def  == DefinitionId(item)
            vis  == resolve_visibility(data.visibilities[ItemNode(data, item).visibility + 1])
            res  == from_definition(def, vis, item.kind = "Struct" /\ has_constructor)
        IN  /\ scope' = add_resolution(add_definition(scope, def), name, res)
            /\ calls' = Append(calls, [op |-> "add_resolution", name |-> name,
                                       def |-> def, res |-> res])
    /\ collected' = collected + 1
    /\ UNCHANGED <<lowerVars, perns_call, mutVars, extVars>>

Next == LowerModItem \/ FinishModuleItems \/ CollectItem

Spec == Init /\ [][Next]_vars

\* The next module item of a file of the typed family.
LowerTypedItem ==
    /\ pc = "lowering"
    /\ Len(items) < MaxTyped
    /\ \E item \in TypedItems : LowerItem(item)

NextTypes == LowerTypedItem \/ FinishModuleItems

SpecTypes == Init /\ [][NextTypes]_vars

\* The struct data query: the fields of a struct under their local ids, the
\* fields of the item tree's range in order, numbered from 0.
StructData_fields(d, node) ==
    [j \in 1..(node.fields.range.end - node.fields.range.start) |->
        [id |-> j - 1, data |-> d.fields[node.fields.range.start + j]]]

\* src.rs StructField::source up to the unwrap: the first pair of the zip of
\* the syntax fields with the struct's fields whose id is the field's id.
\* The syntax fields are the record field list's nodes, and nothing for any
\* other struct kind.  None is the find that comes back empty: the unwrap
\* panics.  The node is returned with its position in the syntax field list.
source(d, its, strukt, id) ==
    LET node   == d.structs[strukt + 1]
        src    == its[node.ast_id + 1]
        field_sources == IF src.skind = "Record" THEN src.fields ELSE <<>>
        fields == StructData_fields(d, node)
        zipped == IF Len(field_sources) < Len(fields)
                  THEN Len(field_sources) ELSE Len(fields)
        found  == {j \in 1..zipped : fields[j].id = id}
    IN  IF found = {} THEN None
        ELSE LET j == CHOOSE j \in found : \A k \in found : j <= k
             IN  Some([pos |-> j, ast |-> field_sources[j]])

\* StructField::source is asked about a field of a struct of the built tree.
SourceOfField ==
    /\ pc = "built"
    /\ \E strukt \in 0..(Len(data.structs) - 1) :
        \E id \in 0..(Len(StructData_fields(data, data.structs[strukt + 1])) - 1) :
            src_call' = Some([strukt |-> strukt, id |-> id,
                              res |-> source(data, items, strukt, id)])
    /\ UNCHANGED <<lowerVars, scopeVars, mutVars, lazyVars, parseVars>>

NextFields == LowerStructItem \/ FinishModuleItems \/ SourceOfField

SpecFields == Init /\ [][NextFields]_vars

\* ItemScope::add_resolution called with any name and any PerNs.
AddResolution ==
    /\ Len(calls) < MaxCalls
    /\ \E name \in Names, def \in ScopePerNs :
        /\ scope' = add_resolution(scope, name, def)
        /\ calls' = Append(calls, [op |-> "add_resolution", name |-> name,
                                   def |-> ScopeIds[1], res |-> def])
    /\ UNCHANGED <<lowerVars, collected, perns_call, mutVars, extVars>>

\* ItemScope::add_definition called with any identity.
AddDefinition ==
    /\ Len(calls) < MaxCalls
    /\ \E def \in Range(ScopeIds) :
        /\ scope' = add_definition(scope, def)
        /\ calls' = Append(calls, [op |-> "add_definition", name |-> "",
                                   def |-> def, res |-> [types |-> None, values |-> None]])
    /\ UNCHANGED <<lowerVars, collected, perns_call, mutVars, extVars>>

NextScope == AddResolution \/ AddDefinition

SpecScope == Init /\ [][NextScope]_vars

\* ------------------------------------------------- built-in scope: actions
\* A thread dereferences BUILTIN_SCOPE: Lazy::force's fast path reads the
\* value if the cell is complete and takes the slow path otherwise.
Force ==
    /\ \E t \in Threads :
        /\ threads[t].pc = "idle"
        /\ threads' = [threads EXCEPT ![t] =
                IF cell.state = "Complete"
                THEN [@ EXCEPT !.pc = "done", !.seen = cell.value]
                ELSE [@ EXCEPT !.pc = "slow"]]
    /\ UNCHANGED <<cell, published>>
    /\ UNCHANGED <<lowerVars, scopeVars, mutVars, srcVars, parseVars>>

\* The slow path: the thread that moves the cell from Incomplete to Running
\* runs the initialiser; one that finds it Running waits; one that finds it
\* Complete reads the value.
InitializeOrWait ==
    /\ \E t \in Threads :
        /\ threads[t].pc = "slow"
        /\ CASE cell.state = "Incomplete" ->
                  /\ cell' = [cell EXCEPT !.state = "Running"]
                  /\ threads' = [threads EXCEPT ![t] = [@ EXCEPT !.pc = "init"]]
             [] cell.state = "Running" ->
                  /\ threads' = [threads EXCEPT ![t] = [@ EXCEPT !.pc = "waiting"]]
                  /\ UNCHANGED cell
             [] OTHER ->
                  /\ threads' = [threads EXCEPT ![t] =
                          [@ EXCEPT !.pc = "done", !.seen = cell.value]]
                  /\ UNCHANGED cell
    /\ UNCHANGED published
    /\ UNCHANGED <<lowerVars, scopeVars, mutVars, srcVars, parseVars>>

\* A waiting thread is woken once the cell is no longer Running and examines
\* the cell again.
Wake ==
    /\ \E t \in Threads :
        /\ threads[t].pc = "waiting"
        /\ cell.state # "Running"
        /\ threads' = [threads EXCEPT ![t] = [@ EXCEPT !.pc = "slow"]]
    /\ UNCHANGED <<cell, published>>
    /\ UNCHANGED <<lowerVars, scopeVars, mutVars, srcVars, parseVars>>

\* The initialiser maps the next element of PrimitiveType::ALL and collects
\* it into the table it is building.
RunInit ==
    /\ \E t \in Threads :
        /\ threads[t].pc = "init"
        /\ Collected(t) < Len(PrimitiveType_ALL)
        /\ LET p == PrimitiveType_ALL[Collected(t) + 1]
           IN  threads' = [threads EXCEPT ![t] =
                   [@ EXCEPT !.local = Insert(@, p.name, builtin_entry(p))]]
    /\ UNCHANGED <<cell, published>>
    /\ UNCHANGED <<lowerVars, scopeVars, mutVars, srcVars, parseVars>>

\* The initialiser has returned: its table is stored in the cell's slot.
StoreValue ==
    /\ \E t \in Threads :
        /\ threads[t].pc = "init"
        /\ Collected(t) = Len(PrimitiveType_ALL)
        /\ cell' = [cell EXCEPT !.value = Some(threads[t].local)]
        /\ published' = Append(published, threads[t].local)
        /\ threads' = [threads EXCEPT ![t] =
                [@ EXCEPT !.pc = "store", !.local = IdleThread.local]]
    /\ UNCHANGED <<lowerVars, scopeVars, mutVars, srcVars, parseVars>>

\* The initialising thread marks the cell Complete and reads the value.
Complete ==
    /\ \E t \in Threads :
        /\ threads[t].pc = "store"
        /\ cell' = [cell EXCEPT !.state = "Complete"]
        /\ threads' = [threads EXCEPT ![t] =
                [@ EXCEPT !.pc = "done", !.seen = cell.value]]
    /\ UNCHANGED published
    /\ UNCHANGED <<lowerVars, scopeVars, mutVars, srcVars, parseVars>>

\* A thread that has read the table accesses BUILTIN_SCOPE again later.
Again ==
    /\ \E t \in Threads :
        /\ threads[t].pc = "done"
        /\ threads' = [threads EXCEPT ![t] = [@ EXCEPT !.pc = "idle"]]
    /\ UNCHANGED <<cell, published>>
    /\ UNCHANGED <<lowerVars, scopeVars, mutVars, srcVars, parseVars>>

NextLazy ==
    Force \/ InitializeOrWait \/ Wake \/ RunInit \/ StoreValue \/ Complete \/ Again

SpecLazy == Init /\ [][NextLazy]_vars

\* ---------------------------------------------------------- parser: actions
\* Any source text of at most MaxTokens tokens, its first token current.
InitParse ==
    /\ Init!1 /\ Init!2 /\ Init!3 /\ Init!4 /\ Init!5 /\ Init!6 /\ Init!7
    /\ Init!8 /\ Init!9 /\ Init!10 /\ Init!11 /\ Init!12 /\ Init!13
    /\ Init!14 /\ Init!15 /\ Init!16
    /\ parser \in {[pos |-> 0, cur |-> c] : c \in TokensAt(0)}
    /\ ctl = "mod"
    /\ mod_start = 0
    /\ last_iter = None

Iteration(loop, start, end, left) ==
    Some([loop |-> loop, start |-> start, end |-> end, left |-> left])

\* mod_contents: one more declaration.  The iteration is over when
\* declaration returns, unless it stands at the loop head of a field list.
Declaration ==
    /\ ctl = "mod"
    /\ parser.cur # "EOF"
    /\ \E o \in declaration(parser) :
        /\ parser' = o.p
        /\ IF o.enter = "none"
           THEN /\ ctl' = "mod"
                /\ last_iter' = Iteration("mod", parser.pos, o.p.pos, FALSE)
                /\ UNCHANGED mod_start
           ELSE /\ ctl' = o.enter
                /\ mod_start' = parser.pos
                /\ UNCHANGED last_iter
    /\ UNCHANGED <<lowerVars, scopeVars, mutVars, srcVars, lazyVars>>

\* mod_contents: the loop ends at EOF.
ModContentsEnd ==
    /\ ctl = "mod"
    /\ parser.cur = "EOF"
    /\ ctl' = "done"
    /\ UNCHANGED <<parser, mod_start, last_iter>>
    /\ UNCHANGED <<lowerVars, scopeVars, mutVars, srcVars, lazyVars>>

\* record_field_def_list: one iteration of the loop.
RecordField ==
    /\ ctl = "record"
    /\ parser.cur \notin {"}", "EOF"}
    /\ \E q \in record_field_iteration(parser) :
        /\ parser' = q
        /\ last_iter' = Iteration("record", parser.pos, q.pos, FALSE)
    /\ UNCHANGED <<ctl, mod_start>>
    /\ UNCHANGED <<lowerVars, scopeVars, mutVars, srcVars, lazyVars>>

\* tuple_field_def_list: one iteration of the loop.
TupleField ==
    /\ ctl = "tuple"
    /\ parser.cur \notin {")", "EOF"}
    /\ \E o \in tuple_field_iteration(parser) :
        /\ parser' = o.p
        /\ ctl' = IF o.brk THEN "tuple_end" ELSE "tuple"
        /\ last_iter' = Iteration("tuple", parser.pos, o.p.pos, o.brk)
    /\ UNCHANGED mod_start
    /\ UNCHANGED <<lowerVars, scopeVars, mutVars, srcVars, lazyVars>>

\* The loop of a field list is over (its condition failed, or the tuple loop
\* broke): the list and the struct are completed, declaration returns and
\* the iteration of mod_contents that began at mod_start is over.
FieldListEnd ==
    /\ \/ ctl = "record" /\ parser.cur \in {"}", "EOF"}
       \/ ctl = "tuple" /\ parser.cur \in {")", "EOF"}
       \/ ctl = "tuple_end"
    /\ \E q \in field_list_end(parser, IF ctl = "record" THEN "}" ELSE ")") :
        /\ parser' = q
        /\ last_iter' = Iteration("mod", mod_start, q.pos, FALSE)
    /\ ctl' = "mod"
    /\ UNCHANGED mod_start
    /\ UNCHANGED <<lowerVars, scopeVars, mutVars, srcVars, lazyVars>>

NextParse == Declaration \/ ModContentsEnd \/ RecordField \/ TupleField \/ FieldListEnd

\* The parser runs to completion: it is never suspended.
SpecParse == InitParse /\ [][NextParse]_vars /\ WF_vars(NextParse)

\* PerNs::from_definition called with any definition, visibility and flag.
FromDefinition ==
    /\ \E kind \in DefinitionKinds, id \in 0..MaxId, vis \in Visibilities,
          has_constructor \in BOOLEAN :
        LET def == [kind |-> kind, id |-> id]
        IN  perns_call' = Some([def |-> def, vis |-> vis,
                                has_constructor |-> has_constructor,
                                res |-> from_definition(def, vis, has_constructor)])
    /\ UNCHANGED <<lowerVars, scope, calls, collected, mutVars, extVars>>

NextPerNs == FromDefinition

SpecPerNs == Init /\ [][NextPerNs]_vars

\* A body with the patterns `mut x` and `y`, under any resolver.
InitMut ==
    /\ items = <<>>
    /\ top_level = <<>>
    /\ data = EmptyData
    /\ diagnostics = <<>>
    /\ pc = "lowering"
    /\ scope = EmptyScope
    /\ calls = <<>>
    /\ collected = 0
    /\ perns_call = None
    /\ body = [exprs |-> <<>>, pats |-> BodyPats]
    /\ resolver \in [Paths -> Resolutions]
    /\ mut_call = None
    /\ src_call = None
    /\ cell = [state |-> "Incomplete", value |-> None]
    /\ threads = [t \in Threads |-> IdleThread]
    /\ published = <<>>
    /\ parser = [pos |-> 0, cur |-> "EOF"]
    /\ ctl = "mod"
    /\ mod_start = 0
    /\ last_iter = None

\* The expressions that can be allocated next: the sub-expressions of a
\* lowered expression are allocated before it.
NextExprs ==
    LET older == 0..(Len(body.exprs) - 1)
    IN  {[tag |-> "Path", path |-> p, expr |-> 0] : p \in Paths}
        \cup {[tag |-> "Literal", path |-> "", expr |-> 0]}
        \cup {[tag |-> t, path |-> "", expr |-> e] : t \in {"Field", "Call"}, e \in older}

\* Body lowering allocates one more expression.
AllocExpr ==
    /\ Len(body.exprs) < MaxExprs
    /\ \E e \in NextExprs : body' = [body EXCEPT !.exprs = Append(@, e)]
    /\ UNCHANGED <<lowerVars, scopeVars, resolver, mut_call, extVars>>

\* check_mut_bind is asked about an expression of the body.
CheckMutBind ==
    /\ \E expr \in 0..(Len(body.exprs) - 1) :
        mut_call' = Some([expr |-> expr, result |-> check_mut_bind(body, resolver, expr)])
    /\ UNCHANGED <<lowerVars, scopeVars, body, resolver, extVars>>

NextMut == AllocExpr \/ CheckMutBind

SpecMut == InitMut /\ [][NextMut]_vars


\* ------------------------------------------------- item tree: properties
\* The syntax kind that lowers to a ModItem kind.
SyntaxKind(k) ==
    CASE k = "Function"  -> "FunctionDef"
      [] k = "Struct"    -> "StructDef"
      [] k = "TypeAlias" -> "TypeAliasDef"
      [] k = "Const"     -> "ConstDef"

\* The positions of the file's items that declare a name.
NamedPositions == {i \in 1..Len(items) : IsSome(items[i].name)}

\* The positions of the file's items that declare the name n.
Declaring(n) == {i \in 1..Len(items) : items[i].name = Some(n)}

\* The positions of the diagnostics that report the name n.
Reporting(n) == {j \in 1..Len(diagnostics) : diagnostics[j].name = n}

\* The position of a ModItem in top_level (0 when it is not there).
PosOf(item) ==
    IF \E i \in 1..Len(top_level) : top_level[i] = item
    THEN CHOOSE i \in 1..Len(top_level) : top_level[i] = item
    ELSE 0

\* The first position of top_level whose item carries the name n.
FirstPos(n) ==
    CHOOSE i \in 1..Len(top_level) :
        /\ ItemName(data, top_level[i]) = n
        /\ \A k \in 1..(i - 1) : ItemName(data, top_level[k]) # n

\* C1: once the tree is built, a name declared by N >= 1 items of the file
\* (of whatever kinds) is reported by exactly N - 1 DuplicateDefinition
\* diagnostics, and a name no item declares by none.
C1_DuplicateCount ==
    pc = "built" =>
        \A n \in Names :
            LET N == Cardinality(Declaring(n))
                D == Cardinality(Reporting(n))
            IN  IF N >= 1 THEN D = N - 1 ELSE D = 0

\* C1 witness: three items of two different kinds share a name and the
\* built tree carries two diagnostics for it.
C1_Witness ==
    /\ pc = "built"
    /\ \E n \in Names :
        /\ Cardinality(Declaring(n)) = 3
        /\ Cardinality(Reporting(n)) = 2
        /\ \E i, k \in Declaring(n) : items[i].kind # items[k].kind

\* C2: in every diagnostic `first` is the earliest top-level item with the
\* reported name, `second` a later item with that name, and the diagnostics
\* are ordered by the position of their `second`.
C2_FirstIsEarliest ==
    pc = "built" =>
        /\ \A j \in 1..Len(diagnostics) :
            LET dg == diagnostics[j]
            IN  /\ PosOf(dg.first) # 0
                /\ PosOf(dg.second) # 0
                /\ PosOf(dg.first) = FirstPos(dg.name)
                /\ ItemName(data, dg.second) = dg.name
                /\ PosOf(dg.first) < PosOf(dg.second)
        /\ \A j, k \in 1..Len(diagnostics) :
            j < k => PosOf(diagnostics[j].second) < PosOf(diagnostics[k].second)

\* C2 witness: a name declared three times; the second and the third
\* occurrence are both reported against the first one.
C2_Witness ==
    /\ pc = "built"
    /\ Len(diagnostics) = 2
    /\ diagnostics[1].name = diagnostics[2].name
    /\ diagnostics[1].first = top_level[1]
    /\ diagnostics[2].first = top_level[1]
    /\ diagnostics[1].second = top_level[2]
    /\ diagnostics[2].second = top_level[3]

\* C3: top_level is the sequence of the file's named module items in
\* declaration order (kind, name and syntax node agree position by
\* position), it is the same before and after the duplicate pass, and the
\* only diagnostics are those of repeated names.
C3_TopLevelIsNamedItems ==
    LET named == SelectSeq(items, LAMBDA it : IsSome(it.name))
    IN  /\ Len(top_level) = Len(named)
        /\ \A i \in 1..Len(top_level) :
            /\ SyntaxKind(top_level[i].kind) = named[i].kind
            /\ ItemName(data, top_level[i]) = Unwrap(named[i].name)
            /\ items[ItemNode(data, top_level[i]).ast_id + 1] = named[i]
            /\ \A k \in 1..(i - 1) :
                ItemNode(data, top_level[k]).ast_id < ItemNode(data, top_level[i]).ast_id
        /\ Len(diagnostics) =
             IF pc = "built"
             THEN Len(top_level) - Cardinality({Unwrap(named[i].name) : i \in 1..Len(named)})
             ELSE 0

\* C3 witness: a built tree of a file with a nameless item between two items
\* of the same name: both named items are kept, the nameless one is not.
C3_Witness ==
    /\ pc = "built"
    /\ Len(items) = 3
    /\ ~IsSome(items[2].name)
    /\ items[1].name = items[3].name
    /\ IsSome(items[1].name)
    /\ Len(top_level) = 2
    /\ Len(diagnostics) = 1

\* ------------------------------------------------ struct fields: properties
\* The syntax node a lowered struct came from.
StructSyntax(s) == items[s.ast_id + 1]

\* The structs of the arena that carry a field range, in arena order.
RangedStructs == SelectSeq(data.structs, LAMBDA s : s.fields.tag # "Unit")

\* C7: the Fields::Record range of a lowered record struct is as long as the
\* record field list of its syntax node.
C7_RecordRangeLength ==
    \A i \in 1..Len(data.structs) :
        LET s == data.structs[i]
        IN  s.fields.tag = "Record" =>
                /\ StructSyntax(s).skind = "Record"
                /\ s.fields.range.end - s.fields.range.start = Len(StructSyntax(s).fields)

\* C7 witness: a record struct with MaxFields fields, lowered after a struct
\* that already put fields in the arena.
C7_Witness ==
    /\ Len(data.structs) = 2
    /\ data.structs[1].fields.range.end > 0
    /\ data.structs[2].fields.tag = "Record"
    /\ Len(StructSyntax(data.structs[2]).fields) = MaxFields

\* C8: the field ranges of the structs that have one are contiguous in struct
\* order: the first starts at 0, each next one starts where the previous one
\* ends, and the last ends at the length of the field arena.
C8_RangesPartitionArena ==
    LET rs == RangedStructs
    IN  /\ \A i \in 1..Len(rs) :
            /\ rs[i].fields.range.start <= rs[i].fields.range.end
            /\ rs[i].fields.range.start =
                 IF i = 1 THEN 0 ELSE rs[i - 1].fields.range.end
        /\ Len(data.fields) = IF rs = <<>> THEN 0 ELSE rs[Len(rs)].fields.range.end

\* C8 witness: a nameless struct with a field list in the file, followed by
\* a named struct with a non-empty range.
C8_Witness ==
    /\ Len(items) = 2
    /\ ~IsSome(items[1].name)
    /\ Len(items[1].fields) > 0
    /\ Len(data.structs) = 1
    /\ data.structs[1].fields.range.end > data.structs[1].fields.range.start

\* C9: the Fields::Tuple range of a lowered tuple struct is as long as the
\* tuple field list of its syntax node, and its i-th field (from 0) carries
\* the positional name of i.
C9_TuplePositionalNames ==
    \A k \in 1..Len(data.structs) :
        LET s == data.structs[k]
            n == Len(StructSyntax(s).fields)
        IN  s.fields.tag = "Tuple" =>
                /\ StructSyntax(s).skind = "Tuple"
                /\ s.fields.range.end - s.fields.range.start = n
                /\ \A i \in 0..(n - 1) :
                    data.fields[s.fields.range.start + i + 1].name = new_tuple_field(i)

\* C9 witness: a tuple struct with two fields, lowered after a struct that
\* already put fields in the arena.
C9_Witness ==
    /\ Len(data.structs) = 2
    /\ data.structs[1].fields.range.end > 0
    /\ data.structs[2].fields.tag = "Tuple"
    /\ data.structs[2].fields.range.end - data.structs[2].fields.range.start = 2

\* --------------------------------------------------- item scope: properties
\* The add_resolution calls for the name n that populated the slot `ns`
\* ("types" or "values"), as positions of `calls`.
Populating(n, ns) ==
    {i \in 1..Len(calls) :
        /\ calls[i].op = "add_resolution"
        /\ calls[i].name = n
        /\ IsSome(calls[i].res[ns])}

\* The entry the most recent populating call supplied, None when there is none.
LastSupplied(n, ns) ==
    LET P == Populating(n, ns)
    IN  IF P = {} THEN None
        ELSE calls[CHOOSE i \in P : \A k \in P : k <= i].res[ns]

\* C4: once every top-level item is registered in declaration order, lookup
\* of a name reported by a DuplicateDefinition returns, in each namespace
\* the diagnostic's `first` item was registered in, that first item.
C4_LookupReturnsFirst ==
    (pc = "built" /\ collected = Len(top_level)) =>
        \A j \in 1..Len(diagnostics) :
            LET dg  == diagnostics[j]
                reg == calls[PosOf(dg.first)].res
                got == get(scope, dg.name)
            IN  /\ IsSome(reg.types) => got.types = reg.types
                /\ IsSome(reg.values) => got.values = reg.values

\* C5: in each namespace, get(name) is the entry supplied by the most recent
\* add_resolution call for that name that populated the namespace, and is
\* empty when no call did.
C5_LastWriterPerSlot ==
    \A n \in Names :
        /\ get(scope, n).types = LastSupplied(n, "types")
        /\ get(scope, n).values = LastSupplied(n, "values")

\* C5 witness: three calls for one name: the first fills both slots, the
\* second only the types slot with another entry, the third fills neither;
\* the scope also holds another name.
C5_Witness ==
    /\ Len(calls) = MaxCalls
    /\ \E n \in Names, i, k, l \in 1..Len(calls) :
        /\ i < k /\ k < l
        /\ calls[i].op = "add_resolution" /\ calls[i].name = n
        /\ calls[k].op = "add_resolution" /\ calls[k].name = n
        /\ calls[l].op = "add_resolution" /\ calls[l].name = n
        /\ IsSome(calls[i].res.types) /\ IsSome(calls[i].res.values)
        /\ IsSome(calls[k].res.types) /\ ~IsSome(calls[k].res.values)
        /\ calls[k].res.types # calls[i].res.types
        /\ ~IsSome(calls[l].res.types) /\ ~IsSome(calls[l].res.values)
        /\ get(scope, n) = [types |-> calls[k].res.types, values |-> calls[i].res.values]

\* The namespaces the classification table gives a definition kind.
TableNamespaces(kind, has_constructor) ==
    CASE kind = "FunctionId" -> {"values"}
      [] kind = "StructId"   -> IF has_constructor THEN {"types", "values"} ELSE {"types"}
      [] OTHER               -> {"types"}

\* C6: the result of from_definition populates exactly the namespaces of the
\* classification table, each with the identity and the visibility it was
\* called with.
C6_ClassificationTable ==
    IsSome(perns_call) =>
        LET c  == Unwrap(perns_call)
            ns == TableNamespaces(c.def.kind, c.has_constructor)
            e  == Some([id |-> c.def, vis |-> c.vis])
        IN  /\ c.res.types = IF "types" \in ns THEN e ELSE None
            /\ c.res.values = IF "values" \in ns THEN e ELSE None

\* C6 witness: a constant called with has_constructor set lands in the types
\* namespace only.
C6_Witness ==
    /\ IsSome(perns_call)
    /\ Unwrap(perns_call).def.kind = "ConstDefId"
    /\ Unwrap(perns_call).has_constructor
    /\ Unwrap(perns_call).vis = "Module1"
    /\ IsSome(Unwrap(perns_call).res.types)
    /\ ~IsSome(Unwrap(perns_call).res.values)

\* ------------------------------------------- place expressions: properties
RECURSIVE BaseChain(_, _)
\* The expressions reached from expr by going from a field projection to its
\* base, at most n times.
BaseChain(expr, n) ==
    LET e == body.exprs[expr + 1]
    IN  IF n = 0 \/ e.tag # "Field" THEN {expr}
        ELSE {expr} \cup BaseChain(e.expr, n - 1)

\* The path resolves fully, as a value, to a local binding bound `mut`.
MutableLocal(path) ==
    /\ IsSome(resolver[path])
    /\ Unwrap(resolver[path]).tag = "LocalBinding"
    /\ body.pats[Unwrap(resolver[path]).pat + 1] = [tag |-> "Bind", mode |-> "Mutable"]

\* C10: check_mut_bind answers, for a bare path, whether the path is a local
\* binding bound `mut`; for a field projection, what it answers for the base
\* (so: whether the chain of bases ends in such a path); for every other
\* expression, false.
C10_MutablePlace ==
    IsSome(mut_call) =>
        LET c == Unwrap(mut_call)
            e == body.exprs[c.expr + 1]
        IN  CASE e.tag = "Path"  -> c.result = MutableLocal(e.path)
              [] e.tag = "Field" ->
                   /\ c.result = check_mut_bind(body, resolver, e.expr)
                   /\ c.result =
                        \E x \in BaseChain(c.expr, Len(body.exprs)) :
                            /\ body.exprs[x + 1].tag = "Path"
                            /\ MutableLocal(body.exprs[x + 1].path)
              [] OTHER           -> c.result = FALSE

\* C10 witness: a projection of a projection of a path bound `mut` is a
\* mutable place, while the body also holds a path bound without `mut`.
C10_Witness ==
    /\ IsSome(mut_call)
    /\ Unwrap(mut_call).result
    /\ Len(body.exprs) = 3
    /\ body.exprs[3].tag = "Field" /\ body.exprs[3].expr = 1
    /\ body.exprs[2].tag = "Field" /\ body.exprs[2].expr = 0
    /\ body.exprs[1].tag = "Path"
    /\ Unwrap(mut_call).expr = 2
    /\ \E p \in Paths : resolver[p] = Some([tag |-> "LocalBinding", pat |-> 1])

\* ------------------------------------------- scope declarations: properties
RECURSIVE DeclaredBy(_)
\* The identities the add_definition calls of a call sequence passed, in
\* call order.
DeclaredBy(cs) ==
    IF cs = <<>> THEN <<>>
    ELSE IF Head(cs).op = "add_definition" THEN <<Head(cs).def>> \o DeclaredBy(Tail(cs))
    ELSE DeclaredBy(Tail(cs))

\* The names some add_resolution call populated in the namespace ns.
Resolvable(ns) == {n \in Names : Populating(n, ns) # {}}

\* C15: declarations() is the list of the identities passed to
\* add_definition, in call order with repeats; the keys of the two name tables
\* are the names add_resolution populated and their entries the ones it
\* supplied last, whatever add_definition calls came in between.
C15_DeclarationsAndTablesIndependent ==
    /\ declarations(scope) = DeclaredBy(calls)
    /\ DOMAIN scope.types = Resolvable("types")
    /\ DOMAIN scope.values = Resolvable("values")
    /\ \A n \in Resolvable("types") : scope.types[n] = Unwrap(LastSupplied(n, "types"))
    /\ \A n \in Resolvable("values") : scope.values[n] = Unwrap(LastSupplied(n, "values"))

\* C15 witness: one identity declared twice with an add_resolution call of
\* another identity in between: the declared identity is in no table and the
\* resolvable identity is not declared.
C15_Witness ==
    /\ Len(calls) = 3
    /\ calls[1].op = "add_definition"
    /\ calls[2].op = "add_resolution"
    /\ calls[3].op = "add_definition"
    /\ calls[1].def = calls[3].def
    /\ declarations(scope) = <<calls[1].def, calls[1].def>>
    /\ IsSome(calls[2].res.types)
    /\ Unwrap(calls[2].res.types).id # calls[1].def
    /\ ~IsSome(calls[2].res.values)
    /\ get(scope, calls[2].name).types = calls[2].res.types

\* --------------------------------------------- arena consistency: properties
\* The arena of ItemTreeData a ModItem kind indexes.
ArenaOf(d, kind) ==
    CASE kind = "Function"  -> d.functions
      [] kind = "Struct"    -> d.structs
      [] kind = "TypeAlias" -> d.type_aliases
      [] kind = "Const"     -> d.constants

ModItemKinds == {"Function", "Struct", "TypeAlias", "Const"}

RECURSIVE NamedStructFields(_)
\* How many field nodes the named struct items of a file hold.
NamedStructFields(its) ==
    IF its = <<>> THEN 0
    ELSE (IF Head(its).kind = "StructDef" /\ IsSome(Head(its).name)
          THEN Len(Head(its).fields) ELSE 0) + NamedStructFields(Tail(its))

\* C16: every top-level item indexes an allocated record of its kind, every
\* allocated record is indexed by exactly one top-level item, items of one
\* kind come in increasing index order, every top-level item owns one entry
\* of the visibilities arena and there are no other entries, and the field
\* arena holds only the fields of named structs.
C16_ArenasMatchTopLevel ==
    /\ \A i \in 1..Len(top_level) :
        /\ top_level[i].kind \in ModItemKinds
        /\ top_level[i].index < Len(ArenaOf(data, top_level[i].kind))
        /\ ItemNode(data, top_level[i]).visibility < Len(data.visibilities)
    /\ \A kind \in ModItemKinds :
        \A k \in 0..(Len(ArenaOf(data, kind)) - 1) :
            Cardinality({i \in 1..Len(top_level) :
                            top_level[i] = [kind |-> kind, index |-> k]}) = 1
    /\ \A i, k \in 1..Len(top_level) :
        /\ (i < k /\ top_level[i].kind = top_level[k].kind)
              => top_level[i].index < top_level[k].index
        /\ i # k => ItemNode(data, top_level[i]).visibility
                      # ItemNode(data, top_level[k]).visibility
    /\ Len(data.visibilities) = Len(top_level)
    /\ Len(data.fields) = NamedStructFields(items)

\* C16 witness: a nameless function, a nameless record struct with a field
\* and a named record struct: two items dropped, one kept with its field.
C16_Witness ==
    /\ pc = "built"
    /\ Len(items) = 3
    /\ \E i, k \in 1..3 :
        /\ items[i].kind = "FunctionDef" /\ ~IsSome(items[i].name)
        /\ items[k].kind = "StructDef" /\ ~IsSome(items[k].name)
        /\ Len(items[k].fields) = 1
    /\ Len(top_level) = 1
    /\ Len(data.structs) = 1
    /\ Len(data.fields) = 1
    /\ Len(data.visibilities) = 1

\* ------------------------------------------------ missing types: properties
\* The TypeRef a present type child lowers to.
PathRef(ty) == [tag |-> "Path", path |-> Unwrap(ty)]

\* What a parameter or field type child must lower to.
ErrorIfAbsent(ty) == IF IsSome(ty) THEN PathRef(ty) ELSE [tag |-> "Error", path |-> ""]

\* The top-level items lowered from the syntax item at position i.
LoweredFrom(i) ==
    {k \in 1..Len(top_level) : ItemNode(data, top_level[k]).ast_id = i - 1}

C14_SourceFindsField ==
    IsSome(src_call) =>
        LET c == Unwrap(src_call)
            src == items[data.structs[c.strukt + 1].ast_id + 1]
        IN  /\ IsSome(c.res)
            /\ Unwrap(c.res).pos = c.id + 1
            /\ Unwrap(c.res).ast = src.fields[c.id + 1]

\* ------------------------------------------------ built-in scope: properties
\* The complete table: every primitive name with a types-only, Public entry.
FullTable ==
    [n \in {PrimitiveType_ALL[k].name : k \in 1..Len(PrimitiveType_ALL)} |->
        LET p == CHOOSE q \in Range(PrimitiveType_ALL) : q.name = n
        IN  [types  |-> Some([id |-> [kind |-> "PrimitiveType", id |-> p.ty],
                              vis |-> "Public"]),
             values |-> None]]

\* C11: in every interleaving of the threads' accesses BUILTIN_SCOPE's value
\* is stored at most once and by at most one initialiser, what is stored is
\* the complete table and stays in the slot, a Complete cell holds it, and
\* every table a thread has read is the complete table.
C11_BuiltinScopeOnce ==
    /\ Len(published) <= 1
    /\ Cardinality({t \in Threads : threads[t].pc \in {"init", "store"}}) <= 1
    /\ \A k \in 1..Len(published) : published[k] = FullTable
    /\ IF IsSome(cell.value) THEN published = <<Unwrap(cell.value)>>
       ELSE published = <<>>
    /\ cell.state = "Complete" => IsSome(cell.value)
    /\ \A t \in Threads :
        /\ threads[t].pc = "done" => IsSome(threads[t].seen)
        /\ IsSome(threads[t].seen) => Unwrap(threads[t].seen) = FullTable

\* C11 witness: the first accesses raced: one thread still waits for the
\* initialiser, which has published and read the table, and a third thread
\* has read it too.
C11_Witness ==
    /\ Len(published) = 1
    /\ \E t1, t2, t3 \in Threads :
        /\ t1 # t2 /\ t2 # t3 /\ t1 # t3
        /\ threads[t1].pc = "waiting"
        /\ IsSome(threads[t2].seen)
        /\ IsSome(threads[t3].seen)

\* ------------------------------------------------------- parser: properties
\* No iteration of a loop is a step without progress: it has consumed a
\* token or it has left its loop.
IterationProgress ==
    IsSome(last_iter) =>
        \/ Unwrap(last_iter).end > Unwrap(last_iter).start
        \/ Unwrap(last_iter).left

\* C17: on every text every iteration of the mod_contents loop, of the
\* record field loop and of the tuple field loop consumes a token or leaves
\* the loop, and the parse of the declarations comes to its end.
C17_ParsingTerminates == []IterationProgress /\ <>(ctl = "done")

\* C17 witness: on malformed input an iteration of the tuple field loop
\* reported an error and left the loop by break.
C17_Witness ==
    /\ ctl = "tuple_end"
    /\ IsSome(last_iter)
    /\ Unwrap(last_iter).loop = "tuple"
    /\ Unwrap(last_iter).left

====
